---------------------------- MODULE Spec2Model ----------------------------
(***************************************************************************)
(* A model of wayback_recon.c: the command line of main, the stdin loop,   *)
(* the page loop of process_domain against the CDX server, the URL set,    *)
(* the parameter extraction, the method heuristic, the sort and the        *)
(* serialization of the report.                                            *)
(*                                                                         *)
(* C strings are sequences of byte values (1..255) without the terminating *)
(* NUL; a literal is written as its bytes with the text in a comment.      *)
(* A working buffer that the code edits in place is a sequence that holds  *)
(* its NUL bytes (0) explicitly, and a char pointer into it is an index.   *)
(*                                                                         *)
(* A failed allocation (realloc, strdup) or a failed fopen ends the        *)
(* process with exit(1) wherever it happens; the model follows the runs in *)
(* which they succeed.  The lines printed to stdout are not kept.          *)
(***************************************************************************)
EXTENDS Integers, Sequences, FiniteSets, TLC

VARIABLES
    argv,         \* main: the argument vector, argv[1] is the program name
    stdin,        \* the lines of standard input, each with its line terminator
    nread,        \* the number of lines fgets has returned
    pc,           \* main: "start", "stdin_loop", "stdin_call", "single_call", "exit"
    exit_code,    \* the value main returned or passed to exit, -1 while running
    diag,         \* the last diagnostic main or process_domain wrote to stderr
    conf,         \* main's locals output_file, limit, timeout, verbose, sort_desc, domain
    domain_buf,   \* the domain process_domain was called with
    pd,           \* process_domain: "idle", "enter", "request", "perform", "finish",
                  \* "returned"
    resume_key,   \* process_domain: resume_key, NULL when absent
    seen,         \* process_domain: URLSet seen, seen.urls[0..count-1]
    endpoints,    \* process_domain: endpoints[0..endpoint_count-1]
    url,          \* process_domain: the query URL of the last request
    nreq,         \* the number of requests issued for the current domain
    res,          \* how the last page ended: "none", "curl_error", "empty_body",
                  \* "parse_error", "not_array", "ok"
    last_row,     \* process_domain: last_row of the last decoded page
    offered,      \* the original URLs the server has sent in data rows for this domain
    artifact,     \* what the file at output_file holds, NoFile before it is written
    truncated,    \* what the file held when fopen(output_file, "w") last emptied it
    ret,          \* the value of each finished process_domain call, in call order
    call,         \* a function called on its own: its name and arguments
    result        \* the values the calls of it returned, in call order

vars == <<argv, stdin, nread, pc, exit_code, diag, conf, domain_buf, pd, resume_key, seen,
          endpoints, url, nreq, res, last_row, offered, artifact, truncated, ret,
          call, result>>

\* A null char pointer: a value that is no string.
NULL == <<-1>>

Min(a, b) == IF a < b THEN a ELSE b

max(a, b) == IF a > b THEN a ELSE b

-----------------------------------------------------------------------------
(* The C library on strings.                                               *)

\* strcmp(a, b): the sign of the first differing byte, bytes compared as
\* unsigned char; the shorter string is smaller when it is a prefix.
strcmp(a, b) ==
    LET n == Min(Len(a), Len(b))
        diff == {i \in 1..n : a[i] # b[i]}
    IN  IF diff = {}
        THEN (IF Len(a) < Len(b) THEN -1 ELSE IF Len(a) > Len(b) THEN 1 ELSE 0)
        ELSE LET k == CHOOSE i \in diff : \A j \in diff : i <= j
             IN  IF a[k] < b[k] THEN -1 ELSE 1

\* strstr(hay, needle) != NULL
strstr(hay, needle) ==
    \E i \in 0..(Len(hay) - Len(needle)) :
        \A j \in 1..Len(needle) : hay[i + j] = needle[j]

\* strchr(s, c): the index of the first c in s, 0 when there is none
strchr(s, c) ==
    LET hits == {i \in 1..Len(s) : s[i] = c}
    IN  IF hits = {} THEN 0 ELSE CHOOSE i \in hits : \A j \in hits : i <= j

\* The string that starts at index p of a buffer: the bytes up to the next NUL.
\* Every buffer of the model ends with a NUL.
CStr(buf, p) ==
    LET e == CHOOSE i \in p..Len(buf) : buf[i] = 0 /\ \A j \in p..(i - 1) : buf[j] # 0
    IN  SubSeq(buf, p, e - 1)

\* strspn(buf + p, delim): the length of the run of delimiter bytes at p
strspn(buf, p, delim) ==
    LET e == CHOOSE i \in p..Len(buf) :
                 buf[i] \notin delim /\ \A j \in p..(i - 1) : buf[j] \in delim
    IN  e - p

\* strcspn(buf + p, delim): the length of the run of bytes at p that are
\* neither a delimiter nor the NUL
strcspn(buf, p, delim) ==
    LET e == CHOOSE i \in p..Len(buf) :
                 (buf[i] = 0 \/ buf[i] \in delim)
                 /\ \A j \in p..(i - 1) : (buf[j] # 0 /\ buf[j] \notin delim)
    IN  e - p

-----------------------------------------------------------------------------
(* infer_method                                                            *)

\* infer_method with the DELETE check before the PUT check
infer_method_swapped(u, mimetype) ==
    IF u = NULL THEN "GET"
    ELSE
    LET m == IF mimetype = NULL THEN << >> ELSE mimetype
        has_post ==
            \/ strstr(u, <<108, 111, 103, 105, 110>> (* "login" *)) \/ strstr(u, <<115, 117, 98, 109, 105, 116>> (* "submit" *)) \/ strstr(u, <<117, 112, 108, 111, 97, 100>> (* "upload" *))
            \/ strstr(u, <<99, 114, 101, 97, 116, 101>> (* "create" *)) \/ strstr(u, <<117, 112, 100, 97, 116, 101>> (* "update" *)) \/ strstr(u, <<100, 101, 108, 101, 116, 101>> (* "delete" *))
            \/ strstr(u, <<97, 112, 105>> (* "api" *)) \/ strstr(u, <<106, 115, 111, 110>> (* "json" *)) \/ strstr(u, <<103, 114, 97, 112, 104, 113, 108>> (* "graphql" *))
            \/ strstr(m, <<106, 115, 111, 110>> (* "json" *)) \/ strstr(m, <<120, 109, 108>> (* "xml" *)) \/ strstr(m, <<102, 111, 114, 109>> (* "form" *))
    IN  IF has_post
        THEN IF strstr(u, <<100, 101, 108, 101, 116, 101>> (* "delete" *)) \/ strstr(u, <<114, 101, 109, 111, 118, 101>> (* "remove" *)) THEN "DELETE"
             ELSE IF strstr(u, <<117, 112, 100, 97, 116, 101>> (* "update" *)) \/ strstr(u, <<112, 97, 116, 99, 104>> (* "patch" *)) THEN "PUT"
             ELSE "POST"
        ELSE "GET"

infer_method(u, mimetype) ==
    IF u = NULL THEN "GET"
    ELSE
    LET m == IF mimetype = NULL THEN << >> ELSE mimetype
        has_post ==
            \/ strstr(u, <<108, 111, 103, 105, 110>> (* "login" *)) \/ strstr(u, <<115, 117, 98, 109, 105, 116>> (* "submit" *)) \/ strstr(u, <<117, 112, 108, 111, 97, 100>> (* "upload" *))
            \/ strstr(u, <<99, 114, 101, 97, 116, 101>> (* "create" *)) \/ strstr(u, <<117, 112, 100, 97, 116, 101>> (* "update" *)) \/ strstr(u, <<100, 101, 108, 101, 116, 101>> (* "delete" *))
            \/ strstr(u, <<97, 112, 105>> (* "api" *)) \/ strstr(u, <<106, 115, 111, 110>> (* "json" *)) \/ strstr(u, <<103, 114, 97, 112, 104, 113, 108>> (* "graphql" *))
            \/ strstr(m, <<106, 115, 111, 110>> (* "json" *)) \/ strstr(m, <<120, 109, 108>> (* "xml" *)) \/ strstr(m, <<102, 111, 114, 109>> (* "form" *))
    IN  IF has_post
        THEN IF strstr(u, <<117, 112, 100, 97, 116, 101>> (* "update" *)) \/ strstr(u, <<112, 97, 116, 99, 104>> (* "patch" *)) THEN "PUT"
             ELSE IF strstr(u, <<100, 101, 108, 101, 116, 101>> (* "delete" *)) \/ strstr(u, <<114, 101, 109, 111, 118, 101>> (* "remove" *)) THEN "DELETE"
             ELSE "POST"
        ELSE "GET"

-----------------------------------------------------------------------------
(* The parameter extraction of process_domain.                             *)

MAX_URL_LEN == 2048
MAX_PARAM_LEN == 512
INITIAL_CAPACITY == 1024
MAX_LINE_LEN == 4096
MAX_DOMAIN_LEN == 253

\* safe_strncpy(dest, src, dest_size): dest afterwards, with its NUL
safe_strncpy(src, dest_size) ==
    SubSeq(src, 1, Min(Len(src), dest_size - 1)) \o <<0>>

\* safe_strcpy is the same loop without the return value
safe_strcpy(src, dest_size) ==
    SubSeq(src, 1, Min(Len(src), dest_size - 1)) \o <<0>>

\* safe_strtok(str, delim, &saveptr) on the buffer buf; str and saveptr are
\* indices, 0 for a null pointer.  Gives the token's index (0 for NULL), the
\* buffer and the save pointer afterwards.
safe_strtok(buf, str, delim, saveptr) ==
    LET s0 == IF str = 0 THEN saveptr ELSE str
    IN  IF s0 = 0 \/ buf[s0] = 0
        THEN [token |-> 0, buf |-> buf, saveptr |-> saveptr]
        ELSE LET s1 == s0 + strspn(buf, s0, delim)
             IN  IF buf[s1] = 0
                 THEN [token |-> 0, buf |-> buf, saveptr |-> saveptr]
                 ELSE LET end == s1 + strcspn(buf, s1, delim)
                      IN  IF buf[end] # 0
                          THEN [token |-> s1, buf |-> [buf EXCEPT ![end] = 0],
                                saveptr |-> end + 1]
                          ELSE [token |-> s1, buf |-> buf, saveptr |-> end]

\* strrchr in the place of strchr: the index in buf of the last '=' of the token
TokenEq_last(buf, token) ==
    LET t == CStr(buf, token)
        hits == {i \in 1..Len(t) : t[i] = 61}
    IN  IF hits = {} THEN 0
        ELSE token + (CHOOSE i \in hits : \A j \in hits : i >= j) - 1

\* line 304, eq = strchr(token, '='): the index in buf of the first '=' of
\* the token, 0 for NULL
TokenEq(buf, token) ==
    LET eq == strchr(CStr(buf, token), 61)   \* '='
    IN  IF eq = 0 THEN 0 ELSE token + eq - 1

\* the while loop of lines 303-313, from the token tk on
RECURSIVE ParamLoop(_, _)
ParamLoop(tk, params) ==
    IF tk.token = 0 THEN params
    ELSE LET eq == TokenEq(tk.buf, tk.token)
             buf2 == IF eq # 0 THEN [tk.buf EXCEPT ![eq] = 0] ELSE tk.buf
             params2 == IF buf2[tk.token] # 0
                        THEN Append(params, CStr(buf2, tk.token))
                        ELSE params
         IN  ParamLoop(safe_strtok(buf2, 0, {38}, tk.saveptr), params2)

\* lines 294-314: params[0..param_count-1] for the URL original
ExtractParams(original) ==
    LET qmark == strchr(original, 63)   \* '?'
    IN  IF qmark = 0 THEN << >>
        ELSE LET query == safe_strncpy(SubSeq(original, qmark + 1, Len(original)),
                                       MAX_PARAM_LEN)
             IN  ParamLoop(safe_strtok(query, 1, {38}, 0), << >>)

-----------------------------------------------------------------------------
(* The URL set and the order of the report.                                *)

\* add_url without the scan of lines 121-123
add_url_no_check(set, u) ==
    IF u = NULL \/ u = << >> THEN [ret |-> 0, set |-> set]
    ELSE [ret |-> 1,
          set |-> [urls |-> Append(set.urls, u),
                   capacity |-> IF Len(set.urls) = set.capacity
                                THEN max(set.capacity * 2, INITIAL_CAPACITY)
                                ELSE set.capacity]]

\* add_url(set, url): the return value and the set afterwards.  url is a
\* string or NULL; set is [urls, capacity], count being Len(urls).
add_url(set, u) ==
    IF u = NULL \/ u = << >> THEN [ret |-> 0, set |-> set]
    ELSE IF \E i \in 1..Len(set.urls) : strcmp(set.urls[i], u) = 0
    THEN [ret |-> 0, set |-> set]
    ELSE [ret |-> 1,
          set |-> [urls |-> Append(set.urls, u),
                   capacity |-> IF Len(set.urls) = set.capacity
                                THEN max(set.capacity * 2, INITIAL_CAPACITY)
                                ELSE set.capacity]]

compare_endpoints_asc(ea, eb) == strcmp(ea.url, eb.url)

\* compare_endpoints_desc with the body of compare_endpoints_asc
compare_endpoints_desc_pasted(ea, eb) == strcmp(ea.url, eb.url)

compare_endpoints_desc(ea, eb) == strcmp(eb.url, ea.url)

\* the comparator line 361 hands to qsort
Comparator(sort_desc, ea, eb) ==
    IF sort_desc # 0 THEN compare_endpoints_desc(ea, eb)
    ELSE compare_endpoints_asc(ea, eb)

\* qsort(base, n, size, compar): base afterwards.  Elements are inserted one
\* by one before the first element the comparator puts after them; the order
\* qsort gives to elements that compare equal is unspecified, and the URL set
\* keeps such elements out of the array.
RECURSIVE qsort(_, _)
qsort(base, sort_desc) ==
    IF base = << >> THEN << >>
    ELSE LET n == Len(base)
             front == qsort(SubSeq(base, 1, n - 1), sort_desc)
             e == base[n]
             after == {i \in 1..Len(front) : Comparator(sort_desc, e, front[i]) < 0}
             k == IF after = {} THEN Len(front) + 1
                  ELSE CHOOSE i \in after : \A j \in after : i <= j
         IN  SubSeq(front, 1, k - 1) \o <<e>> \o SubSeq(front, k, Len(front))

-----------------------------------------------------------------------------
(* JSON values as jansson holds them, and the accessors the code uses.     *)

\* A null json_t pointer.
json_NULL == [t |-> "NULL"]

JStr(s) == [t |-> "string", s |-> s]
JArr(a) == [t |-> "array", a |-> a]
JNull == [t |-> "null"]
JInt(n) == [t |-> "integer", n |-> n]
JObj == [t |-> "object"]

json_is_array(j) == j.t = "array"

json_array_size(j) == IF json_is_array(j) THEN Len(j.a) ELSE 0

\* json_array_get(j, i) with the C index i, NULL when out of range
json_array_get(j, i) ==
    IF json_is_array(j) /\ i >= 0 /\ i < Len(j.a) THEN j.a[i + 1] ELSE json_NULL

json_string_value(j) == IF j.t = "string" THEN j.s ELSE NULL

-----------------------------------------------------------------------------
(* The bounds of the model and the inputs drawn within them.               *)

MaxRows == 2      \* data rows of a page between its header and its tail
MaxPages == 3     \* requests per domain; the server ends the listing by then
MaxLines == 2     \* lines on standard input

uA == <<97, 47, 97, 112, 105, 63, 120, 61, 49>> (* "a/api?x=1" *)
uB == <<97, 47, 98>> (* "a/b" *)
uC == <<97, 47, 195, 169>> (* "a/\xc3\xa9" *)
uS == <<97, 47, 115>> (* "a/s" *)

header == JArr(<<JStr(<<111, 114, 105, 103, 105, 110, 97, 108>> (* "original" *)), JStr(<<116, 105, 109, 101, 115, 116, 97, 109, 112>> (* "timestamp" *)), JStr(<<115, 116, 97, 116, 117, 115, 99, 111, 100, 101>> (* "statuscode" *)),
                 JStr(<<109, 105, 109, 101, 116, 121, 112, 101>> (* "mimetype" *))>>)

\* data rows: the same URL comes with different timestamps, status codes and
\* mimetypes, and one mimetype is no string
RowPool ==
    { JArr(<<JStr(uA), JStr(<<50, 48, 50, 48>> (* "2020" *)), JStr(<<50, 48, 48>> (* "200" *)), JStr(<<116, 101, 120, 116, 47, 104, 116, 109, 108>> (* "text/html" *))>>),
      JArr(<<JStr(uB), JStr(<<50, 48, 50, 48>> (* "2020" *)), JStr(<<50, 48, 48>> (* "200" *)), JStr(<<116, 101, 120, 116, 47, 104, 116, 109, 108>> (* "text/html" *))>>),
      JArr(<<JStr(uB), JStr(<<50, 48, 50, 49>> (* "2021" *)), JStr(<<52, 48, 52>> (* "404" *)), JStr(<<97, 112, 112, 108, 105, 99, 97, 116, 105, 111, 110, 47, 106, 115, 111, 110>> (* "application/json" *))>>),
      JArr(<<JStr(uC), JStr(<<50, 48, 50, 48>> (* "2020" *)), JStr(<<51, 48, 49>> (* "301" *)), JNull>>) }

\* rows that are no data rows: no array, fewer than 4 cells, a first cell that
\* is no string, an empty URL
JunkRows ==
    << JStr(uS),
       JArr(<<JStr(uS), JStr(<<50, 48, 50, 48>> (* "2020" *)), JStr(<<50, 48, 48>> (* "200" *))>>),
       JArr(<<JInt(7), JStr(<<50, 48, 50, 48>> (* "2020" *)), JStr(<<50, 48, 48>> (* "200" *)), JStr(<<116, 101, 120, 116, 47, 104, 116, 109, 108>> (* "text/html" *))>>),
       JArr(<<JStr(<< >>), JStr(<<50, 48, 50, 48>> (* "2020" *)), JStr(<<50, 48, 48>> (* "200" *)), JStr(<<116, 101, 120, 116, 47, 104, 116, 109, 108>> (* "text/html" *))>>) >>

\* a token too long for the query URL buffer
LongKey == [i \in 1..MAX_URL_LEN |-> 75]

\* how a page ends: with its last data row, with the empty separator row, with
\* the separator and a token row, with a row holding "" or "null"
TailPool ==
    { << >>,
      <<JArr(<< >>)>>,
      <<JArr(<< >>), JArr(<<JStr(<<107, 49>> (* "k1" *))>>)>>,
      <<JArr(<< >>), JArr(<<JStr(<<107, 50>> (* "k2" *))>>)>>,
      <<JArr(<< >>), JArr(<<JStr(LongKey)>>)>>,
      <<JArr(<<JStr(<< >>)>>)>>,
      <<JArr(<<JStr(<<110, 117, 108, 108>> (* "null" *))>>)>> }

Bodies == UNION {[1..n -> RowPool] : n \in 0..MaxRows}

\* what curl_easy_perform and json_loads can give for one request: a failed
\* transfer, an empty body, a body that is no JSON, or a decoded value
Responses ==
    {[kind |-> "curl_error"], [kind |-> "empty_body"], [kind |-> "parse_error"]}
    \cup {[kind |-> "json", root |-> j] : j \in {JObj, JArr(<< >>)}}
    \cup {[kind |-> "json", root |-> JArr(<<header>> \o junk \o b \o t)] :
             junk \in {<< >>, JunkRows}, b \in Bodies, t \in TailPool}

\* the two-page listing of A, B and then B, C, and the ways a page can fail
FewResponses ==
    { [kind |-> "curl_error"],
      [kind |-> "parse_error"],
      [kind |-> "json", root |-> JArr(<<header,
          JArr(<<JStr(uA), JStr(<<50, 48, 50, 48>> (* "2020" *)), JStr(<<50, 48, 48>> (* "200" *)), JStr(<<116, 101, 120, 116, 47, 104, 116, 109, 108>> (* "text/html" *))>>),
          JArr(<<JStr(uB), JStr(<<50, 48, 50, 48>> (* "2020" *)), JStr(<<50, 48, 48>> (* "200" *)), JStr(<<116, 101, 120, 116, 47, 104, 116, 109, 108>> (* "text/html" *))>>),
          JArr(<< >>), JArr(<<JStr(<<107, 49>> (* "k1" *))>>)>>)],
      [kind |-> "json", root |-> JArr(<<header,
          JArr(<<JStr(uB), JStr(<<50, 48, 50, 49>> (* "2021" *)), JStr(<<52, 48, 52>> (* "404" *)), JStr(<<116, 101, 120, 116, 47, 104, 116, 109, 108>> (* "text/html" *))>>),
          JArr(<<JStr(uC), JStr(<<50, 48, 50, 48>> (* "2020" *)), JStr(<<51, 48, 49>> (* "301" *)), JNull>>)>>)] }

-----------------------------------------------------------------------------
(* process_domain                                                          *)

\* "%ld" of a long
RECURSIVE FormatLd(_)
FormatLd(n) ==
    IF n < 0 THEN <<45>> \o FormatLd(-n)
    ELSE IF n < 10 THEN <<48 + n>>
    ELSE FormatLd(n \div 10) \o <<48 + (n % 10)>>

\* snprintf(buf, size, ...): the first size - 1 bytes of the formatted text
snprintf(size, text) == SubSeq(text, 1, Min(Len(text), size - 1))

\* lines 210-215
FullDomain(domain) ==
    IF ~strstr(domain, <<58, 47, 47>> (* "://" *))
    THEN snprintf(MAX_DOMAIN_LEN + 8, <<104, 116, 116, 112, 58, 47, 47>> (* "http://" *) \o domain)
    ELSE CStr(safe_strcpy(domain, MAX_DOMAIN_LEN + 8), 1)

QueryHead(full_domain, limit) ==
    <<104, 116, 116, 112, 58, 47, 47, 119, 101, 98, 46, 97, 114, 99, 104, 105, 118, 101, 46, 111, 114, 103, 47, 99, 100, 120, 47, 115, 101, 97, 114, 99, 104, 47, 99, 100, 120, 63, 117, 114, 108, 61>> (* "http://web.archive.org/cdx/search/cdx?url=" *) \o full_domain
    \o <<38, 109, 97, 116, 99, 104, 84, 121, 112, 101, 61, 100, 111, 109, 97, 105, 110, 38, 102, 108, 61, 111, 114, 105, 103, 105, 110, 97, 108, 44, 116, 105, 109, 101, 115, 116, 97, 109, 112, 44, 115, 116, 97, 116, 117, 115, 99, 111, 100, 101, 44, 109, 105, 109, 101, 116, 121, 112, 101, 38>> (* "&matchType=domain&fl=original,timestamp,statuscode,mimetype&" *)
    \o <<99, 111, 108, 108, 97, 112, 115, 101, 61, 117, 114, 108, 107, 101, 121, 38, 111, 117, 116, 112, 117, 116, 61, 106, 115, 111, 110, 38, 108, 105, 109, 105, 116, 61>> (* "collapse=urlkey&output=json&limit=" *) \o FormatLd(limit)

\* lines 233-247: the query URL for the resume key, NULL on the first page
QueryURL(full_domain, limit, key) ==
    IF key # NULL
    THEN snprintf(MAX_URL_LEN, QueryHead(full_domain, limit) \o <<38, 114, 101, 115, 117, 109, 101, 75, 101, 121, 61>> (* "&resumeKey=" *) \o key)
    ELSE snprintf(MAX_URL_LEN, QueryHead(full_domain, limit) \o <<38, 115, 104, 111, 119, 82, 101, 115, 117, 109, 101, 75, 101, 121, 61, 116, 114, 117, 101>> (* "&showResumeKey=true" *))

\* lines 292-337: the endpoint record of a newly seen URL
NewEndpoint(original, mimetype) ==
    [url |-> original, method |-> infer_method(original, mimetype),
     params |-> ExtractParams(original)]

\* the for loop with break in the place of continue: a row that is no data row
\* ends the loop
RECURSIVE RowLoop_break(_, _, _)
RowLoop_break(root, i, st) ==
    IF ~(i < json_array_size(root)) THEN st
    ELSE LET row == json_array_get(root, i)
         IN  IF ~json_is_array(row) \/ json_array_size(row) < 4
             THEN st
             ELSE LET original == json_string_value(json_array_get(row, 0))
                      mimetype == json_string_value(json_array_get(row, 3))
                  IN  IF original = NULL THEN st
                      ELSE LET a == add_url(st.seen, original)
                           IN  IF a.ret # 0
                               THEN RowLoop_break(root, i + 1,
                                        [seen |-> a.set,
                                         endpoints |-> Append(st.endpoints,
                                             NewEndpoint(original, mimetype))])
                               ELSE RowLoop_break(root, i + 1, st)

\* the for loop of lines 283-339 from the C index i on; st is [seen, endpoints]
RECURSIVE RowLoop(_, _, _)
RowLoop(root, i, st) ==
    IF ~(i < json_array_size(root)) THEN st
    ELSE LET row == json_array_get(root, i)
         IN  IF ~json_is_array(row) \/ json_array_size(row) < 4
             THEN RowLoop(root, i + 1, st)
             ELSE LET original == json_string_value(json_array_get(row, 0))
                      mimetype == json_string_value(json_array_get(row, 3))
                  IN  IF original = NULL THEN RowLoop(root, i + 1, st)
                      ELSE LET a == add_url(st.seen, original)
                           IN  IF a.ret # 0
                               THEN RowLoop(root, i + 1,
                                        [seen |-> a.set,
                                         endpoints |-> Append(st.endpoints,
                                             NewEndpoint(original, mimetype))])
                               ELSE RowLoop(root, i + 1, st)

\* lines 341-349: resume_key after the page
NextKey(root) ==
    LET last == json_array_get(root, json_array_size(root) - 1)
    IN  IF json_is_array(last) /\ json_array_size(last) > 0
        THEN LET last_cell == json_array_get(last, json_array_size(last) - 1)
                 key == json_string_value(last_cell)
             IN  IF key # NULL /\ key # << >> /\ strcmp(key, <<110, 117, 108, 108>> (* "null" *)) # 0
                 THEN key ELSE NULL
        ELSE NULL

\* what a page did to the loop, lines 263-281
PageStatus(r) ==
    IF r.kind # "json" THEN r.kind
    ELSE IF ~json_is_array(r.root) \/ json_array_size(r.root) < 2 THEN "not_array"
    ELSE "ok"

NoFile == <<[k |-> "absent"]>>

\* lines 367-387: what the fprintf calls write, one element per call; a record
\* stands for the text json_dumps gave for it, and failed holds the C indices
\* of the records for which json_dumps returned NULL
RECURSIVE WriteRecords(_, _, _)
WriteRecords(eps, i, failed) ==
    IF ~(i < Len(eps)) THEN << >>
    ELSE (IF i \in failed THEN << >>
          ELSE (IF i > 0 THEN <<[k |-> "comma"]>> ELSE << >>)
               \o <<[k |-> "object", url |-> eps[i + 1].url,
                     method |-> eps[i + 1].method,
                     parameters |-> eps[i + 1].params]>>)
         \o WriteRecords(eps, i + 1, failed)

Serialize(eps, failed) ==
    <<[k |-> "open"]>> \o WriteRecords(eps, 0, failed) \o <<[k |-> "close"]>>

\* the locals as they would be if they outlived the call (static storage)
PDLocalsKept ==
    /\ resume_key' = NULL
    /\ UNCHANGED <<seen, endpoints>>

\* the locals of lines 223-229
PDLocalsInit ==
    /\ resume_key' = NULL
    /\ seen' = [urls |-> << >>, capacity |-> 0]
    /\ endpoints' = << >>

\* lines 204-229: the entry of process_domain up to the page loop
PDEnter ==
    /\ pd = "enter"
    /\ IF domain_buf = << >> \/ Len(domain_buf) > MAX_DOMAIN_LEN
       THEN /\ diag' = "invalid_domain"
            /\ ret' = Append(ret, 1)
            /\ pd' = "returned"
            /\ UNCHANGED <<resume_key, seen, endpoints, nreq, res, last_row, offered>>
       ELSE \E curl_ok \in BOOLEAN :
            IF ~curl_ok
            THEN /\ diag' = "curl_easy_init"
                 /\ ret' = Append(ret, 1)
                 /\ pd' = "returned"
                 /\ UNCHANGED <<resume_key, seen, endpoints, nreq, res, last_row,
                                offered>>
            ELSE /\ PDLocalsInit
                 /\ nreq' = 0
                 /\ res' = "none"
                 /\ last_row' = json_NULL
                 /\ offered' = {}
                 /\ pd' = "request"
                 /\ UNCHANGED <<diag, ret>>
    /\ UNCHANGED <<argv, stdin, nread, pc, exit_code, conf, domain_buf, url, artifact,
                   truncated, call, result>>

\* lines 232-262: the query URL is built, resume_key is freed and the request
\* is handed to curl
PDRequest ==
    /\ pd = "request"
    /\ url' = QueryURL(FullDomain(domain_buf), conf.limit, resume_key)
    /\ resume_key' = NULL
    /\ nreq' = nreq + 1
    /\ pd' = "perform"
    /\ UNCHANGED <<argv, stdin, nread, pc, exit_code, diag, conf, domain_buf, seen,
                   endpoints, res, last_row, offered, artifact, truncated, ret, call,
                   result>>

\* the original URLs of the data rows of a page: the rows after the header
\* that are arrays of at least 4 cells with a non-empty string first
DataRowURLs(root) ==
    {root.a[i].a[1].s : i \in {j \in 2..Len(root.a) :
        /\ root.a[j].t = "array"
        /\ Len(root.a[j].a) >= 4
        /\ root.a[j].a[1].t = "string"
        /\ root.a[j].a[1].s # << >>}}

\* lines 263-353: curl_easy_perform returns, the page is decoded, its rows are
\* taken in and the loop condition is evaluated; the server answers from pool
PDPerformFrom(pool) ==
    /\ pd = "perform"
    /\ \E r \in pool :
        LET status == PageStatus(r) IN
        /\ IF status = "ok" /\ nreq >= MaxPages THEN NextKey(r.root) = NULL ELSE TRUE
        /\ res' = status
        /\ IF r.kind = "curl_error" THEN diag' = "curl_error"
           ELSE IF r.kind = "parse_error" THEN diag' = "json_parse_error"
           ELSE UNCHANGED diag
        /\ IF status # "ok"
           THEN /\ pd' = "finish"
                /\ UNCHANGED <<resume_key, seen, endpoints, last_row, offered>>
           ELSE LET st == RowLoop(r.root, 1, [seen |-> seen, endpoints |-> endpoints])
                IN  /\ seen' = st.seen
                    /\ endpoints' = st.endpoints
                    /\ last_row' = json_array_get(r.root, json_array_size(r.root) - 1)
                    /\ resume_key' = NextKey(r.root)
                    /\ offered' = offered \cup DataRowURLs(r.root)
                    /\ pd' = IF resume_key' # NULL THEN "request" ELSE "finish"
    /\ UNCHANGED <<argv, stdin, nread, pc, exit_code, conf, domain_buf, url, nreq,
                   artifact, truncated, ret, call, result>>

PDPerform == PDPerformFrom(Responses)

PDPerformFew == PDPerformFrom(FewResponses)

\* lines 355-396 returning 1 when the page loop ended on a failed page
PDFinish_error_status ==
    /\ pd = "finish"
    /\ LET sorted == IF Len(endpoints) > 0 THEN qsort(endpoints, conf.sort_desc)
                     ELSE endpoints
       IN  \E failed \in SUBSET (0..(Len(endpoints) - 1)) :
               /\ endpoints' = sorted
               /\ truncated' = artifact
               /\ artifact' = Serialize(sorted, failed)
               /\ ret' = Append(ret, IF res \in {"none", "ok"} THEN 0 ELSE 1)
               /\ pd' = "returned"
    /\ UNCHANGED <<argv, stdin, nread, pc, exit_code, diag, conf, domain_buf,
                   resume_key, seen, url, nreq, res, last_row, offered, call, result>>

\* lines 355-396 with the file opened for appending ("a"): what the file held
\* stays in front of what is written
PDFinish_append ==
    /\ pd = "finish"
    /\ LET sorted == IF Len(endpoints) > 0 THEN qsort(endpoints, conf.sort_desc)
                     ELSE endpoints
       IN  \E failed \in SUBSET (0..(Len(endpoints) - 1)) :
               /\ endpoints' = sorted
               /\ truncated' = NoFile
               /\ artifact' = (IF artifact = NoFile THEN << >> ELSE artifact)
                                  \o Serialize(sorted, failed)
               /\ ret' = Append(ret, 0)
               /\ pd' = "returned"
    /\ UNCHANGED <<argv, stdin, nread, pc, exit_code, diag, conf, domain_buf,
                   resume_key, seen, url, nreq, res, last_row, offered, call, result>>

\* lines 355-396: the endpoints are sorted and written to output_file, which
\* fopen(output_file, "w") first empties, and process_domain returns 0;
\* json_dumps fails for the records of failed
PDFinish ==
    /\ pd = "finish"
    /\ LET sorted == IF Len(endpoints) > 0 THEN qsort(endpoints, conf.sort_desc)
                     ELSE endpoints
       IN  \E failed \in SUBSET (0..(Len(endpoints) - 1)) :
               /\ endpoints' = sorted
               /\ truncated' = artifact
               /\ artifact' = Serialize(sorted, failed)
               /\ ret' = Append(ret, 0)
               /\ pd' = "returned"
    /\ UNCHANGED <<argv, stdin, nread, pc, exit_code, diag, conf, domain_buf,
                   resume_key, seen, url, nreq, res, last_row, offered, call, result>>

-----------------------------------------------------------------------------
(* main                                                                    *)

\* atol: leading white space, an optional sign, then the decimal digits
RECURSIVE AtolDigits(_, _, _)
AtolDigits(str, i, acc) ==
    IF i <= Len(str) /\ str[i] >= 48 /\ str[i] <= 57
    THEN AtolDigits(str, i + 1, acc * 10 + (str[i] - 48))
    ELSE acc

atol(str) ==
    LET white == {32, 9, 10, 11, 12, 13}
        skip == {i \in 1..(Len(str) + 1) : \A j \in 1..(i - 1) : str[j] \in white}
        b == CHOOSE i \in skip : \A j \in skip : i >= j
    IN  IF b <= Len(str) /\ str[b] = 45 THEN 0 - AtolDigits(str, b + 1, 0)
        ELSE IF b <= Len(str) /\ str[b] = 43 THEN AtolDigits(str, b + 1, 0)
        ELSE AtolDigits(str, b, 0)

\* lines 400-405
ConfInit ==
    [output_file |-> <<101, 110, 100, 112, 111, 105, 110, 116, 115, 46, 106, 115, 111, 110>> (* "endpoints.json" *), limit |-> 100000, timeout |-> 60,
     verbose |-> 0, sort_desc |-> 0, domain |-> NULL]

Stop(code, msg, c) == [exit |-> TRUE, code |-> code, diag |-> msg, conf |-> c]

\* the while loop of lines 407-446 from the C index i on; args[i + 1] is argv[i]
RECURSIVE ParseArgs(_, _, _)
ParseArgs(args, i, c) ==
    LET argc == Len(args)
        arg == args[i + 1]
        is(a, b) == strcmp(arg, a) = 0 \/ strcmp(arg, b) = 0
    IN
    IF ~(i < argc) THEN [exit |-> FALSE, code |-> 0, diag |-> "none", conf |-> c]
    ELSE IF is(<<45, 104>> (* "-h" *), <<45, 45, 104, 101, 108, 112>> (* "--help" *)) THEN Stop(0, "help", c)
    ELSE IF is(<<45, 111>> (* "-o" *), <<45, 45, 111, 117, 116, 112, 117, 116>> (* "--output" *))
    THEN IF i + 1 >= argc THEN Stop(1, "output_requires_filename", c)
         ELSE ParseArgs(args, i + 2, [c EXCEPT !.output_file = args[i + 2]])
    ELSE IF is(<<45, 108>> (* "-l" *), <<45, 45, 108, 105, 109, 105, 116>> (* "--limit" *))
    THEN IF i + 1 >= argc THEN Stop(1, "limit_required", c)
         ELSE LET limit == atol(args[i + 2])
              IN  IF limit <= 0 \/ limit > 150000
                  THEN Stop(1, "limit_range", [c EXCEPT !.limit = limit])
                  ELSE ParseArgs(args, i + 2, [c EXCEPT !.limit = limit])
    ELSE IF is(<<45, 116>> (* "-t" *), <<45, 45, 116, 105, 109, 101, 111, 117, 116>> (* "--timeout" *))
    THEN IF i + 1 >= argc THEN Stop(1, "timeout_requires_seconds", c)
         ELSE LET timeout == atol(args[i + 2])
              IN  IF timeout <= 0
                  THEN Stop(1, "timeout_range", [c EXCEPT !.timeout = timeout])
                  ELSE ParseArgs(args, i + 2, [c EXCEPT !.timeout = timeout])
    ELSE IF is(<<45, 118>> (* "-v" *), <<45, 45, 118, 101, 114, 98, 111, 115, 101>> (* "--verbose" *))
    THEN ParseArgs(args, i + 1, [c EXCEPT !.verbose = 1])
    ELSE IF is(<<45, 115>> (* "-s" *), <<45, 45, 115, 111, 114, 116>> (* "--sort" *))
    THEN IF i + 1 >= argc THEN Stop(1, "sort_requires_order", c)
         ELSE IF strcmp(args[i + 2], <<100, 101, 115, 99>> (* "desc" *)) = 0
              THEN ParseArgs(args, i + 2, [c EXCEPT !.sort_desc = 1])
         ELSE IF strcmp(args[i + 2], <<97, 115, 99>> (* "asc" *)) = 0
              THEN ParseArgs(args, i + 2, [c EXCEPT !.sort_desc = 0])
         ELSE Stop(1, "sort_value", c)
    ELSE IF arg # << >> /\ arg[1] = 45
    THEN Stop(1, "unknown_option", c)
    ELSE IF c.domain # NULL THEN Stop(1, "only_one_domain", c)
    ELSE ParseArgs(args, i + 1, [c EXCEPT !.domain = arg])

\* line 448: whether main reads the domains from standard input
StdinMode(args) ==
    Len(args) = 1 \/ (Len(args) > 1 /\ strcmp(args[2], <<45>> (* "-" *)) = 0)

\* lines 400-448 and 469-480: the arguments are parsed and main either ends,
\* enters the stdin loop or calls process_domain for the one domain
MainStart ==
    /\ pc = "start"
    /\ LET p == ParseArgs(argv, 1, ConfInit) IN
       /\ conf' = p.conf
       /\ IF p.exit
          THEN /\ pc' = "exit" /\ exit_code' = p.code /\ diag' = p.diag
               /\ UNCHANGED <<domain_buf, pd>>
          ELSE IF StdinMode(argv)
          THEN /\ pc' = "stdin_loop"
               /\ UNCHANGED <<exit_code, diag, domain_buf, pd>>
          ELSE IF p.conf.domain = NULL
          THEN /\ pc' = "exit" /\ exit_code' = 1 /\ diag' = "domain_required"
               /\ UNCHANGED <<domain_buf, pd>>
          ELSE IF p.conf.domain = << >> \/ Len(p.conf.domain) > MAX_DOMAIN_LEN
          THEN /\ pc' = "exit" /\ exit_code' = 1 /\ diag' = "invalid_domain"
               /\ UNCHANGED <<domain_buf, pd>>
          ELSE /\ pc' = "single_call"
               /\ domain_buf' = p.conf.domain
               /\ pd' = "enter"
               /\ UNCHANGED <<exit_code, diag>>
    /\ UNCHANGED <<argv, stdin, nread, resume_key, seen, endpoints, url, nreq, res,
                   last_row, offered, artifact, truncated, ret, call, result>>

\* fgets(line, size, stdin): at most size - 1 bytes of the next line.  No line
\* of LinePool is longer, so none is left in part for the next call.
fgets(raw, size) == SubSeq(raw, 1, Min(Len(raw), size - 1))

\* lines 450-466: one fgets of the stdin loop, up to the call of process_domain
\* or the end of input
MainReadLine ==
    /\ pc = "stdin_loop"
    /\ IF nread = Len(stdin)
       THEN /\ pc' = "exit" /\ exit_code' = 0
            /\ UNCHANGED <<nread, diag, domain_buf, pd>>
       ELSE LET line == fgets(stdin[nread + 1], MAX_LINE_LEN) \o <<0>>
                len == strcspn(line, 1, {13, 10})
                buf == CStr(safe_strncpy(CStr(line, 1), len + 1), 1)
            IN  /\ nread' = nread + 1
                /\ IF len = 0
                   THEN UNCHANGED <<pc, exit_code, diag, domain_buf, pd>>
                   ELSE IF buf = << >> \/ Len(buf) > MAX_DOMAIN_LEN
                   THEN /\ diag' = "invalid_domain"
                        /\ domain_buf' = buf
                        /\ UNCHANGED <<pc, exit_code, pd>>
                   ELSE /\ pc' = "stdin_call"
                        /\ domain_buf' = buf
                        /\ pd' = "enter"
                        /\ UNCHANGED <<exit_code, diag>>
    /\ UNCHANGED <<argv, stdin, conf, resume_key, seen, endpoints, url, nreq, res,
                   last_row, offered, artifact, truncated, ret, call, result>>

\* lines 462-464 and 480: process_domain has returned to main
MainReturn ==
    /\ pd = "returned"
    /\ pd' = "idle"
    /\ IF pc = "stdin_call"
       THEN /\ pc' = "stdin_loop"
            /\ diag' = IF ret[Len(ret)] # 0 THEN "failed_to_process" ELSE diag
            /\ UNCHANGED exit_code
       ELSE /\ pc' = "exit"
            /\ exit_code' = ret[Len(ret)]
            /\ UNCHANGED diag
    /\ UNCHANGED <<argv, stdin, nread, conf, domain_buf, resume_key, seen, endpoints,
                   url, nreq, res, last_row, offered, artifact, truncated, ret, call,
                   result>>

-----------------------------------------------------------------------------
(* The program from its start.                                             *)

dA == <<97, 46, 99, 111, 109>> (* "a.com" *)
dB == <<104, 116, 116, 112, 58, 47, 47, 98, 46, 111, 114, 103>> (* "http://b.org" *)
dLong == [i \in 1..(MAX_DOMAIN_LEN + 1) |-> 97]

ArgvPool ==
    { <<<<112, 114, 111, 103>> (* "prog" *)>>,
      <<<<112, 114, 111, 103>> (* "prog" *), <<45>> (* "-" *)>>,
      <<<<112, 114, 111, 103>> (* "prog" *), <<45, 111>> (* "-o" *), <<97, 108, 108, 46, 106, 115, 111, 110>> (* "all.json" *)>>,
      <<<<112, 114, 111, 103>> (* "prog" *), dA>>,
      <<<<112, 114, 111, 103>> (* "prog" *), <<45, 115>> (* "-s" *), <<100, 101, 115, 99>> (* "desc" *), dB>>,
      <<<<112, 114, 111, 103>> (* "prog" *), <<45, 45, 115, 111, 114, 116>> (* "--sort" *), <<97, 115, 99>> (* "asc" *), <<45, 118>> (* "-v" *), <<45, 108>> (* "-l" *), <<53>> (* "5" *), <<45, 116>> (* "-t" *), <<57>> (* "9" *), dA>>,
      <<<<112, 114, 111, 103>> (* "prog" *), <<45, 108>> (* "-l" *), <<49, 53, 48, 48, 48, 49>> (* "150001" *), dA>>,
      <<<<112, 114, 111, 103>> (* "prog" *), <<45, 108>> (* "-l" *)>>,
      <<<<112, 114, 111, 103>> (* "prog" *), <<45, 116>> (* "-t" *), <<48>> (* "0" *), dA>>,
      <<<<112, 114, 111, 103>> (* "prog" *), <<45, 116>> (* "-t" *)>>,
      <<<<112, 114, 111, 103>> (* "prog" *), <<45, 115>> (* "-s" *), <<117, 112>> (* "up" *), dA>>,
      <<<<112, 114, 111, 103>> (* "prog" *), <<45, 115>> (* "-s" *)>>,
      <<<<112, 114, 111, 103>> (* "prog" *), <<45, 111>> (* "-o" *)>>,
      <<<<112, 114, 111, 103>> (* "prog" *), <<45, 104>> (* "-h" *)>>,
      <<<<112, 114, 111, 103>> (* "prog" *), <<45, 120>> (* "-x" *), dA>>,
      <<<<112, 114, 111, 103>> (* "prog" *), dA, dB>>,
      <<<<112, 114, 111, 103>> (* "prog" *), << >>>>,
      <<<<112, 114, 111, 103>> (* "prog" *), dLong>> }

LinePool ==
    { dA \o <<10>>, dB \o <<13, 10>>, dA, <<10>>, dLong \o <<10>> }

StdinPool == UNION {[1..n -> LinePool] : n \in 0..MaxLines}

\* the state main starts in, for an argument vector and an input of the pools
InitFrom(argvs, stdins, calls) ==
    /\ argv \in argvs
    /\ stdin \in stdins
    /\ nread = 0
    /\ pc = "start"
    /\ exit_code = -1
    /\ diag = "none"
    /\ conf = ConfInit
    /\ domain_buf = << >>
    /\ pd = "idle"
    /\ resume_key = NULL
    /\ seen = [urls |-> << >>, capacity |-> 0]
    /\ endpoints = << >>
    /\ url = << >>
    /\ nreq = 0
    /\ res = "none"
    /\ last_row = json_NULL
    /\ offered = {}
    /\ artifact = NoFile
    /\ truncated = NoFile
    /\ ret = << >>
    /\ call \in calls
    /\ result = << >>

\* The whole program: every argument vector, and an input on stdin when no
\* domain argument is given; the server answers from FewResponses.
Init ==
    /\ InitFrom(ArgvPool, StdinPool, {[fn |-> "none"]})
    /\ (stdin = << >> \/ ParseArgs(argv, 1, ConfInit).conf.domain = NULL)

Next ==
    \/ MainStart
    \/ MainReadLine
    \/ MainReturn
    \/ PDEnter
    \/ PDRequest
    \/ PDPerformFew
    \/ PDFinish

Spec == Init /\ [][Next]_vars

\* One domain given as the argument, in both sort orders; the server answers
\* from Responses.
InitDomain ==
    InitFrom({<<<<112, 114, 111, 103>> (* "prog" *), dA>>, <<<<112, 114, 111, 103>> (* "prog" *), <<45, 115>> (* "-s" *), <<100, 101, 115, 99>> (* "desc" *), dB>>}, {<< >>},
             {[fn |-> "none"]})

NextDomain ==
    \/ MainStart
    \/ MainReturn
    \/ PDEnter
    \/ PDRequest
    \/ PDPerform
    \/ PDFinish

SpecDomain == InitDomain /\ [][NextDomain]_vars

-----------------------------------------------------------------------------
(* infer_method and the parameter extraction called on their own.          *)

MaxFrags == 2     \* keyword fragments in a URL handed to infer_method
MaxToks == 3      \* '&'-separated tokens in a query string

FragPool ==
    { <<108, 111, 103, 105, 110>> (* "login" *), <<115, 117, 98, 109, 105, 116>> (* "submit" *), <<117, 112, 108, 111, 97, 100>> (* "upload" *), <<99, 114, 101, 97, 116, 101>> (* "create" *), <<117, 112, 100, 97, 116, 101>> (* "update" *), <<100, 101, 108, 101, 116, 101>> (* "delete" *),
      <<97, 112, 105>> (* "api" *), <<106, 115, 111, 110>> (* "json" *), <<103, 114, 97, 112, 104, 113, 108>> (* "graphql" *), <<112, 97, 116, 99, 104>> (* "patch" *), <<114, 101, 109, 111, 118, 101>> (* "remove" *), <<104, 111, 109, 101>> (* "home" *),
      <<76, 79, 71, 73, 78>> (* "LOGIN" *), <<68, 101, 108, 101, 116, 101>> (* "Delete" *), <<117, 112, 100, 97, 116>> (* "updat" *), <<120, 109, 108>> (* "xml" *) }

RECURSIVE PathOf(_)
PathOf(frags) ==
    IF frags = << >> THEN <<104, 116, 116, 112, 115, 58, 47, 47, 120, 46, 99, 111, 109>> (* "https://x.com" *)
    ELSE PathOf(SubSeq(frags, 1, Len(frags) - 1)) \o <<47>> \o frags[Len(frags)]

MimePool ==
    { NULL, << >>, <<116, 101, 120, 116, 47, 104, 116, 109, 108>> (* "text/html" *), <<97, 112, 112, 108, 105, 99, 97, 116, 105, 111, 110, 47, 106, 115, 111, 110>> (* "application/json" *), <<116, 101, 120, 116, 47, 120, 109, 108>> (* "text/xml" *),
      <<109, 117, 108, 116, 105, 112, 97, 114, 116, 47, 102, 111, 114, 109, 45, 100, 97, 116, 97>> (* "multipart/form-data" *), <<97, 112, 112, 108, 105, 99, 97, 116, 105, 111, 110, 47, 74, 83, 79, 78>> (* "application/JSON" *), <<105, 109, 97, 103, 101, 47, 112, 110, 103>> (* "image/png" *) }

InferCalls ==
    {[fn |-> "infer_method", url |-> PathOf(f), mimetype |-> m] :
        f \in UNION {[1..n -> FragPool] : n \in 1..MaxFrags}, m \in MimePool}

TokPool ==
    { <<117, 115, 101, 114, 61, 97>> (* "user=a" *), <<112, 97, 115, 115, 61, 98>> (* "pass=b" *), <<117, 115, 101, 114, 61, 99>> (* "user=c" *), << >>, <<61, 118>> (* "=v" *), <<107>> (* "k" *), <<97, 61, 98, 61, 99>> (* "a=b=c" *),
      <<120, 63, 121, 61, 49>> (* "x?y=1" *), <<113, 61>> (* "q=" *) }

RECURSIVE QueryOf(_)
QueryOf(toks) ==
    IF Len(toks) = 0 THEN << >>
    ELSE IF Len(toks) = 1 THEN toks[1]
    ELSE QueryOf(SubSeq(toks, 1, Len(toks) - 1)) \o <<38>> \o toks[Len(toks)]

\* a query of MAX_PARAM_LEN - 1 bytes, the longest the buffer takes whole, and
\* one that is two bytes longer
LongQueryFits == [i \in 1..(MAX_PARAM_LEN - 5) |-> 97] \o <<38, 98, 61, 49>> (* "&b=1" *)
LongQueryCut == [i \in 1..(MAX_PARAM_LEN - 2) |-> 97] \o <<38, 98, 99>> (* "&bc" *)

ParamCalls ==
    {[fn |-> "extract_params", url |-> <<104, 116, 116, 112, 115, 58, 47, 47, 120, 46, 99, 111, 109, 47, 108, 111, 103, 105, 110, 63>> (* "https://x.com/login?" *) \o QueryOf(t)] :
        t \in UNION {[1..n -> TokPool] : n \in 0..MaxToks}}
    \cup {[fn |-> "extract_params", url |-> u] :
        u \in { <<104, 116, 116, 112, 115, 58, 47, 47, 120, 46, 99, 111, 109, 47, 108, 111, 103, 105, 110>> (* "https://x.com/login" *), <<104, 116, 116, 112, 115, 58, 47, 47, 120, 46, 99, 111, 109, 47, 97, 61, 49, 38, 98, 61, 50>> (* "https://x.com/a=1&b=2" *),
                <<104, 63>> (* "h?" *) \o LongQueryFits, <<104, 63>> (* "h?" *) \o LongQueryCut }}

CallInferMethod ==
    /\ call.fn = "infer_method"
    /\ Len(result) = 0
    /\ result' = <<infer_method(call.url, call.mimetype)>>
    /\ UNCHANGED <<argv, stdin, nread, pc, exit_code, diag, conf, domain_buf, pd,
                   resume_key, seen, endpoints, url, nreq, res, last_row, offered,
                   artifact, truncated, ret, call>>

\* the extraction of lines 294-314, done twice for the same URL
CallExtractParams ==
    /\ call.fn = "extract_params"
    /\ Len(result) < 2
    /\ result' = Append(result, ExtractParams(call.url))
    /\ UNCHANGED <<argv, stdin, nread, pc, exit_code, diag, conf, domain_buf, pd,
                   resume_key, seen, endpoints, url, nreq, res, last_row, offered,
                   artifact, truncated, ret, call>>

\* infer_method called once for each URL and mimetype of the pools
InitInfer == InitFrom({<<<<112, 114, 111, 103>> (* "prog" *)>>}, {<< >>}, InferCalls)

NextInfer == CallInferMethod

SpecInfer == InitInfer /\ [][NextInfer]_vars

\* the parameters extracted twice from each URL of the pool
InitParams == InitFrom({<<<<112, 114, 111, 103>> (* "prog" *)>>}, {<< >>}, ParamCalls)

NextParams == CallExtractParams

SpecParams == InitParams /\ [][NextParams]_vars

-----------------------------------------------------------------------------
(* The rows of one page: the row loop and the resume key on their own.     *)

MaxMixed == 3     \* elements of a page after element 0

\* what element 0 of a page can be: the header, a row that looks like a data
\* row, a value that is no array
Element0Pool ==
    { header,
      JArr(<<JStr(uS), JStr(<<50, 48, 49, 57>> (* "2019" *)), JStr(<<50, 48, 48>> (* "200" *)), JStr(<<116, 101, 120, 116, 47, 104, 116, 109, 108>> (* "text/html" *))>>),
      JInt(7) }

\* the later elements: data rows of 4 and of 5 cells, the four kinds of
\* JunkRows, the empty separator row and a token row
MixedRows ==
    { JArr(<<JStr(uA), JStr(<<50, 48, 50, 48>> (* "2020" *)), JStr(<<50, 48, 48>> (* "200" *)), JStr(<<116, 101, 120, 116, 47, 104, 116, 109, 108>> (* "text/html" *))>>),
      JArr(<<JStr(uB), JStr(<<50, 48, 50, 49>> (* "2021" *)), JStr(<<52, 48, 52>> (* "404" *)), JStr(<<97, 112, 112, 108, 105, 99, 97, 116, 105, 111, 110, 47, 106, 115, 111, 110>> (* "application/json" *))>>),
      JArr(<<JStr(uC), JStr(<<50, 48, 50, 48>> (* "2020" *)), JStr(<<51, 48, 49>> (* "301" *)), JNull, JStr(<<120>> (* "x" *))>>),
      JArr(<< >>),
      JArr(<<JStr(<<107, 49>> (* "k1" *))>>) }
    \cup {JunkRows[i] : i \in 1..Len(JunkRows)}

\* the pages the row loop is entered for: at least one element after element 0
Pages ==
    {JArr(<<e0>> \o b) : e0 \in Element0Pool,
                         b \in UNION {[1..n -> MixedRows] : n \in 1..MaxMixed}}

\* seen and endpoints before the page: empty on the first page, or with the
\* one URL of an earlier page
BeforePage ==
    { [seen |-> [urls |-> << >>, capacity |-> 0], endpoints |-> << >>],
      [seen |-> [urls |-> <<uA>>, capacity |-> INITIAL_CAPACITY],
       endpoints |-> <<NewEndpoint(uA, NULL)>>] }

RowCalls == {[fn |-> "rows", root |-> p, st |-> s] : p \in Pages, s \in BeforePage}

\* lines 283-349 for one decoded page: the row loop from element 1 on, then
\* the resume key
CallRowLoop ==
    /\ call.fn = "rows"
    /\ Len(result) = 0
    /\ PageStatus([kind |-> "json", root |-> call.root]) = "ok"
    /\ result' = <<[st |-> RowLoop(call.root, 1, call.st),
                    resume_key |-> NextKey(call.root)]>>
    /\ UNCHANGED <<argv, stdin, nread, pc, exit_code, diag, conf, domain_buf, pd,
                   resume_key, seen, endpoints, url, nreq, res, last_row, offered,
                   artifact, truncated, ret, call>>

InitRows == InitFrom({<<<<112, 114, 111, 103>> (* "prog" *)>>}, {<< >>}, RowCalls)

NextRows == CallRowLoop

SpecRows == InitRows /\ [][NextRows]_vars

-----------------------------------------------------------------------------
(* The claims.                                                             *)

EndpointURLs == {endpoints[i].url : i \in 1..Len(endpoints)}

IsObject(chunk) == chunk.k = "object"

\* the records the output file holds, in the order written
Written == SelectSeq(artifact, IsObject)

\* a is before b in the byte-wise lexicographic order
LexLess(a, b) ==
    \E k \in 1..Len(b) :
        /\ k - 1 <= Len(a)
        /\ \A j \in 1..(k - 1) : a[j] = b[j]
        /\ (k > Len(a) \/ a[k] < b[k])

\* the URLs of eps go up (sort_desc = 0) or down (sort_desc = 1)
InOrder(eps, sort_desc) ==
    \A i, j \in 1..Len(eps) :
        i < j => IF sort_desc = 0 THEN LexLess(eps[i].url, eps[j].url)
                 ELSE LexLess(eps[j].url, eps[i].url)

Reverse(q) == [i \in 1..Len(q) |-> q[Len(q) + 1 - i]]

\* the continuation token a page returned, from the last element of its
\* payload: the single string of a 1-element array, unless "" or "null"
PageToken(last) ==
    IF last.t = "array" /\ Len(last.a) = 1 /\ last.a[1].t = "string"
       /\ last.a[1].s # << >> /\ last.a[1].s # <<110, 117, 108, 108>> (* "null" *)
    THEN last.a[1].s
    ELSE NULL

\* C1: while a domain is processed the endpoint list never holds two records
\* with the same URL, and it holds, as does the report handed to the
\* serialization, exactly one record for each non-empty URL that a data row of
\* the pages received so far carried.
C1_OneRecordPerURL ==
    /\ \A i, j \in 1..Len(endpoints) : i # j => endpoints[i].url # endpoints[j].url
    /\ EndpointURLs = offered
    /\ \A i, j \in 1..Len(Written) : i # j => Written[i].url # Written[j].url

\* C1: two requests were made, the second page ended with the row of C, and
\* the report holds A, B and C.
C1_Witness ==
    /\ pd = "returned" /\ nreq = 2 /\ ret = <<0>>
    /\ last_row = JArr(<<JStr(uC), JStr(<<50, 48, 50, 48>> (* "2020" *)), JStr(<<51, 48, 49>> (* "301" *)), JNull>>)
    /\ Len(endpoints) = 3
    /\ EndpointURLs = {uA, uB, uC}

\* C2: a further request is issued after a page only if that page returned a
\* continuation token; a page whose last element is a data row, an empty
\* array, [""] or ["null"] ends the pagination.
C2_RequestOnlyAfterToken ==
    (pd \in {"request", "perform"} /\ (nreq >= 2 \/ (pd = "request" /\ nreq = 1)))
        => PageToken(last_row) # NULL

\* C3: a page that fails in transport, is empty, does not decode or is no
\* array of at least 2 elements adds nothing and ends the loop; no further
\* request follows, the report is the sorted list of the endpoints of the
\* earlier pages and process_domain returns 0.
C3_Failing == {"curl_error", "empty_body", "parse_error", "not_array"}

C3_FailedPageEndsLoop ==
    [][ /\ (pd = "perform" /\ pd' # "perform" /\ res' \in C3_Failing)
            => /\ pd' = "finish"
               /\ endpoints' = endpoints
               /\ seen' = seen
               /\ resume_key' = NULL
               /\ nreq' = nreq
        /\ (pd = "finish" /\ res \in C3_Failing)
            => /\ pd' = "returned"
               /\ nreq' = nreq
               /\ ret' = Append(ret, 0)
               /\ Len(endpoints') = Len(endpoints)
               /\ {endpoints'[i] : i \in 1..Len(endpoints')} =
                  {endpoints[i] : i \in 1..Len(endpoints)}
               /\ InOrder(endpoints', conf.sort_desc)
               /\ \A i \in 1..Len(Written') :
                      \E j \in 1..Len(endpoints) : Written'[i].url = endpoints[j].url
      ]_vars

\* C3: the first page gave endpoints and a token, the second request failed
\* to decode, and process_domain returned 0 with the endpoints of page 1.
C3_Witness ==
    /\ pd = "returned" /\ res = "parse_error" /\ nreq = 2 /\ ret = <<0>>
    /\ Len(endpoints) = 2 /\ Len(Written) = 2

\* C4: the first request of a domain carries showResumeKey=true and no
\* resumeKey; every later request carries the token of the page just before
\* it and no showResumeKey; the token variable is empty at the start of the
\* domain and when the loop has ended.
C4_RequestCarriesLastToken ==
    LET head == QueryHead(FullDomain(domain_buf), conf.limit) IN
    /\ (pd = "perform" /\ nreq = 1) => url = head \o <<38, 115, 104, 111, 119, 82, 101, 115, 117, 109, 101, 75, 101, 121, 61, 116, 114, 117, 101>> (* "&showResumeKey=true" *)
    /\ (pd = "perform" /\ nreq > 1) =>
           /\ PageToken(last_row) # NULL
           /\ url = head \o <<38, 114, 101, 115, 117, 109, 101, 75, 101, 121, 61>> (* "&resumeKey=" *) \o PageToken(last_row)
    /\ (pd = "request" /\ nreq = 0) => resume_key = NULL
    /\ pd \in {"finish", "returned"} => resume_key = NULL

\* C5: the report is sorted by URL in byte order, up when sort_desc is 0 and
\* down when it is 1; the records written to the file are in that order; the
\* descending sort of the endpoints is the reverse of their ascending sort;
\* sorting keeps the records as they are.
C5_SortedReport ==
    [][ (pd = "finish" /\ pd' = "returned")
            => /\ InOrder(endpoints', conf.sort_desc)
               /\ InOrder(Written', conf.sort_desc)
               /\ Len(endpoints') = Len(endpoints)
               /\ {endpoints'[i] : i \in 1..Len(endpoints')} =
                  {endpoints[i] : i \in 1..Len(endpoints)}
               /\ qsort(endpoints, 1) = Reverse(qsort(endpoints, 0))
               /\ InOrder(qsort(endpoints, 1), 1)
      ]_vars

\* C5: a descending report of three endpoints, all of them written.
C5_Witness ==
    /\ pd = "returned" /\ conf.sort_desc = 1
    /\ Len(endpoints) = 3 /\ Len(Written) = 3
    /\ endpoints[1].url = uC /\ endpoints[3].url = uA

Has(str, w) ==
    \E i \in 1..(Len(str) - Len(w) + 1) : SubSeq(str, i, i + Len(w) - 1) = w

HasAny(str, ws) == \E w \in ws : Has(str, w)

\* the ordered chain of the method heuristic
MethodChain(u, m) ==
    LET signal ==
            \/ HasAny(u, {<<108, 111, 103, 105, 110>> (* "login" *), <<115, 117, 98, 109, 105, 116>> (* "submit" *), <<117, 112, 108, 111, 97, 100>> (* "upload" *), <<99, 114, 101, 97, 116, 101>> (* "create" *), <<117, 112, 100, 97, 116, 101>> (* "update" *),
                          <<100, 101, 108, 101, 116, 101>> (* "delete" *), <<97, 112, 105>> (* "api" *), <<106, 115, 111, 110>> (* "json" *), <<103, 114, 97, 112, 104, 113, 108>> (* "graphql" *)})
            \/ (m # NULL /\ HasAny(m, {<<106, 115, 111, 110>> (* "json" *), <<120, 109, 108>> (* "xml" *), <<102, 111, 114, 109>> (* "form" *)}))
    IN  IF ~signal THEN "GET"
        ELSE IF HasAny(u, {<<117, 112, 100, 97, 116, 101>> (* "update" *), <<112, 97, 116, 99, 104>> (* "patch" *)}) THEN "PUT"
        ELSE IF HasAny(u, {<<100, 101, 108, 101, 116, 101>> (* "delete" *), <<114, 101, 109, 111, 118, 101>> (* "remove" *)}) THEN "DELETE"
        ELSE "POST"

\* C6: infer_method gives the result of the ordered chain signal, PUT, DELETE,
\* POST for every URL and mimetype; update and delete together give PUT;
\* patch or remove without a signal give GET; upper case does not match.
C6_MethodIsChain ==
    (call.fn = "infer_method" /\ Len(result) = 1) =>
        LET u == call.url
            m == call.mimetype
            quiet == m = NULL \/ ~HasAny(m, {<<106, 115, 111, 110>> (* "json" *), <<120, 109, 108>> (* "xml" *), <<102, 111, 114, 109>> (* "form" *)})
        IN  /\ result[1] = MethodChain(u, m)
            /\ (Has(u, <<117, 112, 100, 97, 116, 101>> (* "update" *)) /\ Has(u, <<100, 101, 108, 101, 116, 101>> (* "delete" *))) => result[1] = "PUT"
            /\ (quiet /\ u \in {<<104, 116, 116, 112, 115, 58, 47, 47, 120, 46, 99, 111, 109, 47, 112, 97, 116, 99, 104>> (* "https://x.com/patch" *), <<104, 116, 116, 112, 115, 58, 47, 47, 120, 46, 99, 111, 109, 47, 114, 101, 109, 111, 118, 101>> (* "https://x.com/remove" *),
                                <<104, 116, 116, 112, 115, 58, 47, 47, 120, 46, 99, 111, 109, 47, 76, 79, 71, 73, 78>> (* "https://x.com/LOGIN" *)})
                   => result[1] = "GET"

\* C6: a URL with delete before update was classified PUT.
C6_Witness ==
    /\ call.fn = "infer_method"
    /\ call.url = <<104, 116, 116, 112, 115, 58, 47, 47, 120, 46, 99, 111, 109, 47, 100, 101, 108, 101, 116, 101, 47, 117, 112, 100, 97, 116, 101>> (* "https://x.com/delete/update" *)
    /\ call.mimetype = NULL
    /\ result = <<"PUT">>

NonEmpty(q) == q # << >>

RECURSIVE SplitOn(_, _)
SplitOn(str, c) ==
    LET k == strchr(str, c)
    IN  IF k = 0 THEN <<str>>
        ELSE <<SubSeq(str, 1, k - 1)>> \o SplitOn(SubSeq(str, k + 1, Len(str)), c)

\* the text after the first '?' of a URL that has one
AfterQMark(u) == SubSeq(u, strchr(u, 63) + 1, Len(u))

\* the names the query of a URL gives: split on '&', empty tokens dropped,
\* each token cut before its first '=', empty names dropped
ParamNames(u) ==
    IF strchr(u, 63) = 0 THEN << >>
    ELSE LET toks == SelectSeq(SplitOn(AfterQMark(u), 38), NonEmpty)
             names == [i \in 1..Len(toks) |-> SplitOn(toks[i], 61)[1]]
         IN  SelectSeq(names, NonEmpty)

C8_ArtifactWellFormed ==
    artifact # NoFile =>
        LET n == Len(artifact) IN
        /\ n >= 2 /\ artifact[1].k = "open" /\ artifact[n].k = "close"
        /\ \A i \in 2..(n - 1) :
               artifact[i].k = (IF i % 2 = 0 THEN "object" ELSE "comma")
        /\ (n > 2 => artifact[n - 1].k = "object")
        /\ InOrder(Written, conf.sort_desc)

\* the data lines of the input: what is before the line terminator is
\* neither empty nor longer than a domain name may be
IsDomainLine(line) ==
    LET ends == {i \in 1..Len(line) : line[i] \in {10, 13}}
        n == IF ends = {} THEN Len(line)
             ELSE (CHOOSE i \in ends : \A j \in ends : i <= j) - 1
    IN  n > 0 /\ n <= MAX_DOMAIN_LEN

DomainLinesRead == Cardinality({i \in 1..nread : IsDomainLine(stdin[i])})

\* C9: in stdin mode every domain line read so far has had its call of
\* process_domain finished, whatever the earlier calls returned, and main
\* ends with 0 after the last line; each call starts with an empty seen set,
\* an empty endpoint list and no token, and its report holds every URL the
\* server sent for that domain.
C9_DomainsIndependent ==
    /\ pc = "stdin_loop" => Len(ret) = DomainLinesRead
    /\ pc = "stdin_call" =>
           Len(ret) = DomainLinesRead - (IF pd = "returned" THEN 0 ELSE 1)
    /\ (pc = "exit" /\ Len(argv) = 1) =>
           /\ nread = Len(stdin) /\ exit_code = 0 /\ Len(ret) = DomainLinesRead
    /\ (pd = "request" /\ nreq = 0) =>
           /\ seen.urls = << >> /\ endpoints = << >> /\ resume_key = NULL
    /\ (pd = "returned" /\ ret[Len(ret)] = 0) =>
           /\ EndpointURLs = offered
           /\ {seen.urls[i] : i \in 1..Len(seen.urls)} = offered

\* C9: the listing of the first domain ended in a transport failure, the
\* second domain is being processed and its endpoints hold a URL that the
\* file written for the first domain holds.
C9_Witness ==
    /\ pc = "stdin_call" /\ pd = "finish" /\ nread = 2
    /\ Len(ret) = 1 /\ ret[1] = 0
    /\ diag = "curl_error"
    /\ \E i \in 1..Len(Written) : Written[i].url = uB
    /\ uB \in EndpointURLs

\* C10: without a domain argument the domains are read from standard input,
\* also with options on the command line and with the single argument "-":
\* main reads every line and does not end with a usage error.
C10_StdinWithoutDomainArg ==
    (pc = "exit" /\ argv \in { <<<<112, 114, 111, 103>> (* "prog" *)>>, <<<<112, 114, 111, 103>> (* "prog" *), <<45>> (* "-" *)>>,
                              <<<<112, 114, 111, 103>> (* "prog" *), <<45, 111>> (* "-o" *), <<97, 108, 108, 46, 106, 115, 111, 110>> (* "all.json" *)>> })
        => /\ exit_code = 0
           /\ nread = Len(stdin)
           /\ Len(ret) = DomainLinesRead

\* sub holds elements of full, in the order of full, each at most once
RECURSIVE IsSubSeq(_, _)
IsSubSeq(sub, full) ==
    IF sub = << >> THEN TRUE
    ELSE IF full = << >> THEN FALSE
    ELSE IF sub[1] = full[1] THEN IsSubSeq(Tail(sub), Tail(full))
    ELSE IsSubSeq(sub, Tail(full))

\* the records of a file for the endpoints eps
RecordsOf(eps) ==
    [i \in 1..Len(eps) |-> [k |-> "object", url |-> eps[i].url,
                            method |-> eps[i].method, parameters |-> eps[i].params]]

ObjectURLs(file) == {file[i].url : i \in {j \in 1..Len(file) : file[j].k = "object"}}

IsDataRow(row) ==
    IF row.t # "array" THEN FALSE
    ELSE IF Len(row.a) < 4 THEN FALSE
    ELSE IF row.a[1].t # "string" THEN FALSE
    ELSE row.a[1].s # << >>

\* the URLs of the data rows among elements[i..], each once, without those
\* of known, in the order of their first row
RECURSIVE FreshURLs(_, _, _)
FreshURLs(elements, i, known) ==
    IF i > Len(elements) THEN << >>
    ELSE IF IsDataRow(elements[i]) /\ elements[i].a[1].s \notin known
    THEN <<elements[i].a[1].s>>
         \o FreshURLs(elements, i + 1, known \cup {elements[i].a[1].s})
    ELSE FreshURLs(elements, i + 1, known)

URLsOf(eps) == [i \in 1..Len(eps) |-> eps[i].url]

\* C11: for every page, the records after it are the records before it and
\* then one for each new URL of the data rows among the elements after
\* element 0, in row order: element 0 gives no record whatever it holds, an
\* element that is no array of at least 4 cells with a non-empty string first
\* (the empty row and the token row among them) gives none, and the data
\* rows after such an element are still taken; and when the page ends with a
\* token row, the token is the resume key, so the pagination goes on.
C11_NonDataRowsSkipped ==
    (call.fn = "rows" /\ Len(result) = 1) =>
        LET elements == call.root.a
            before == {call.st.seen.urls[i] : i \in 1..Len(call.st.seen.urls)}
            fresh == FreshURLs(elements, 2, before)
            token == PageToken(elements[Len(elements)])
        IN  /\ URLsOf(result[1].st.endpoints) = URLsOf(call.st.endpoints) \o fresh
            /\ result[1].st.seen.urls = call.st.seen.urls \o fresh
            /\ \A i \in 1..Len(call.st.endpoints) :
                   result[1].st.endpoints[i] = call.st.endpoints[i]
            /\ token # NULL => result[1].resume_key = token

\* C11: element 0 looked like a data row for a/s, the page went on with a
\* 3-cell row, the data row of a/b and a token row, and the call gave the one
\* record of a/b and the token as the resume key.
C11_Witness ==
    /\ call.fn = "rows" /\ Len(result) = 1
    /\ call.st.endpoints = << >>
    /\ Len(call.root.a) = 4
    /\ IsDataRow(call.root.a[1]) /\ call.root.a[1].a[1].s = uS
    /\ call.root.a[2] = JunkRows[2]
    /\ IsDataRow(call.root.a[3]) /\ call.root.a[3].a[1].s = uB
    /\ call.root.a[4] = JArr(<<JStr(<<107, 49>> (* "k1" *))>>)
    /\ URLsOf(result[1].st.endpoints) = <<uB>>
    /\ result[1].resume_key = <<107, 49>> (* "k1" *)

=============================================================================
